---- MODULE Spec2Model ----
(***************************************************************************)
(* The rules engine of src/tetris.py: collision test, line clearing,       *)
(* piece rotation with wall kicks, locking, scoring, levels, game over,    *)
(* and the frame loop of Tetris.run that feeds key events and gravity      *)
(* ticks to them.  Rendering is left out; it reads the state and never     *)
(* writes it.                                                              *)
(***************************************************************************)
EXTENDS Integers, Sequences, FiniteSets, TLC

\* ---------- Configuration (tetris.py:19-47) ----------
COLUMNS == 10
ROWS == 20

\* The seven colors, by the names the comments of the source give the RGB
\* triples.
COLORS == <<"cyan", "blue", "orange", "yellow", "green", "purple", "red">>

\* The value of an empty grid cell (Python None).
None == "None"

\* ---------- Shape table (tetris.py:51-127) ----------
\* A rotation state is a list of rows, a row a list of the characters of the
\* source string.
TETROMINOES ==
  [ I |-> << << <<"0","0","0","0">>, <<"1","1","1","1">>, <<"0","0","0","0">>, <<"0","0","0","0">> >>,
             << <<"0","0","1","0">>, <<"0","0","1","0">>, <<"0","0","1","0">>, <<"0","0","1","0">> >> >>,
    J |-> << << <<"1","0","0">>, <<"1","1","1">>, <<"0","0","0">> >>,
             << <<"0","1","1">>, <<"0","1","0">>, <<"0","1","0">> >>,
             << <<"0","0","0">>, <<"1","1","1">>, <<"0","0","1">> >>,
             << <<"0","1","0">>, <<"0","1","0">>, <<"1","1","0">> >> >>,
    L |-> << << <<"0","0","1">>, <<"1","1","1">>, <<"0","0","0">> >>,
             << <<"0","1","0">>, <<"0","1","0">>, <<"0","1","1">> >>,
             << <<"0","0","0">>, <<"1","1","1">>, <<"1","0","0">> >>,
             << <<"1","1","0">>, <<"0","1","0">>, <<"0","1","0">> >> >>,
    O |-> << << <<"1","1">>, <<"1","1">> >> >>,
    S |-> << << <<"0","1","1">>, <<"1","1","0">>, <<"0","0","0">> >>,
             << <<"0","1","0">>, <<"0","1","1">>, <<"0","0","1">> >> >>,
    T |-> << << <<"0","1","0">>, <<"1","1","1">>, <<"0","0","0">> >>,
             << <<"0","1","0">>, <<"0","1","1">>, <<"0","1","0">> >>,
             << <<"0","0","0">>, <<"1","1","1">>, <<"0","1","0">> >>,
             << <<"0","1","0">>, <<"1","1","0">>, <<"0","1","0">> >> >>,
    Z |-> << << <<"1","1","0">>, <<"0","1","1">>, <<"0","0","0">> >>,
             << <<"0","0","1">>, <<"0","1","1">>, <<"0","1","0">> >> >> ]

PIECE_KEYS == <<"I", "J", "L", "O", "S", "T", "Z">>

\* PIECE_KEYS.index(type_key), 1-based here.
KeyIndex(type_key) == CHOOSE i \in 1..Len(PIECE_KEYS) : PIECE_KEYS[i] = type_key

Max(a, b) == IF a >= b THEN a ELSE b

\* ---------- Helper functions (tetris.py:145-190) ----------

\* The occupied cells of a shape state at an offset, in the order the
\* generator yields them (row by row, left to right).
shape_cells(shape, offset_x, offset_y) ==
  LET h == Len(shape)
      w == Len(shape[1])
      at(i) == shape[((i - 1) \div w) + 1][((i - 1) % w) + 1]
      occupied == SelectSeq([i \in 1..(h * w) |-> i], LAMBDA i : at(i) = "1")
  IN  [k \in 1..Len(occupied) |->
         <<offset_x + ((occupied[k] - 1) % w), offset_y + ((occupied[k] - 1) \div w)>>]

\* grid[y][x] is the color locked at (x, y), or None.
make_grid(locked_positions) ==
  [y \in 0..(ROWS - 1) |->
     [x \in 0..(COLUMNS - 1) |->
        IF <<x, y>> \in DOMAIN locked_positions
          THEN locked_positions[<<x, y>>] ELSE None]]

\* valid_space with x > COLUMNS for x >= COLUMNS.
valid_space_past_wall(shape, offset_x, offset_y, locked) ==
  LET cells == shape_cells(shape, offset_x, offset_y)
      RECURSIVE check(_)
      check(i) ==
        IF i > Len(cells) THEN TRUE
        ELSE LET x == cells[i][1]
                 y == cells[i][2]
             IN  IF x < 0 \/ x > COLUMNS \/ y >= ROWS THEN FALSE
                 ELSE IF y >= 0 /\ <<x, y>> \in DOMAIN locked THEN FALSE
                 ELSE check(i + 1)
  IN  check(1)

\* The loop of valid_space with its two early returns.
valid_space(shape, offset_x, offset_y, locked) ==
  LET cells == shape_cells(shape, offset_x, offset_y)
      RECURSIVE check(_)
      check(i) ==
        IF i > Len(cells) THEN TRUE
        ELSE LET x == cells[i][1]
                 y == cells[i][2]
             IN  IF x < 0 \/ x >= COLUMNS \/ y >= ROWS THEN FALSE
                 ELSE IF y >= 0 /\ <<x, y>> \in DOMAIN locked THEN FALSE
                 ELSE check(i + 1)
  IN  check(1)

\* A dict is a function from its keys.  TLC keeps a function written
\* [c \in S |-> e] unevaluated; combining it with the empty function makes
\* it the table of its values.
Dict(f) == f @@ <<>>

\* for x in range(COLUMNS): if (x, row) in locked: del locked[(x, row)]
DeleteRow(locked, row) ==
  LET keep == {c \in DOMAIN locked : ~(c[2] = row /\ c[1] \in 0..(COLUMNS - 1))}
  IN  Dict([c \in keep |-> locked[c]])

\* MoveRow that moves nothing.
MoveRow_keep(locked, y, shift) == locked

\* for x in range(COLUMNS): if (x, y) in locked:
\*     locked[(x, y + shift)] = locked.pop((x, y))
MoveRow(locked, y, shift) ==
  LET moved == {c \in DOMAIN locked : c[2] = y /\ c[1] \in 0..(COLUMNS - 1)}
      dest  == {<<c[1], y + shift>> : c \in moved}
  IN  Dict([c \in ((DOMAIN locked) \ moved) \cup dest |->
              IF c \in dest THEN locked[<<c[1], y>>] ELSE locked[c]])

\* clear_lines that looks for full rows above the bottom row only.
clear_lines_above_bottom(grid, locked) ==
  LET lines_to_clear == {y \in 0..(ROWS - 2) :
                           \A x \in 0..(COLUMNS - 1) : grid[y][x] # None}
      top == CHOOSE m \in lines_to_clear : \A r \in lines_to_clear : r <= m
      RECURSIVE remove(_, _)
      remove(l, row) ==
        IF row < 0 THEN l
        ELSE LET m == IF row \in lines_to_clear THEN DeleteRow(l, row) ELSE l
             IN  IF m = m THEN remove(m, row - 1) ELSE m
      RECURSIVE shift_down(_, _)
      shift_down(l, y) ==
        IF y < 0 THEN l
        ELSE LET shift == Cardinality({cleared \in lines_to_clear : y < cleared})
                 m == IF shift > 0 THEN MoveRow(l, y, shift) ELSE l
             IN  IF m = m THEN shift_down(m, y - 1) ELSE m
  IN  IF lines_to_clear = {}
        THEN [cleared |-> 0, locked |-> locked]
        ELSE [cleared |-> Cardinality(lines_to_clear),
              locked  |-> shift_down(remove(locked, ROWS - 1), top - 1)]

\* clear_lines that shifts every row by the number of all the cleared rows.
clear_lines_shift_all(grid, locked) ==
  LET lines_to_clear == {y \in 0..(ROWS - 1) :
                           \A x \in 0..(COLUMNS - 1) : grid[y][x] # None}
      top == CHOOSE m \in lines_to_clear : \A r \in lines_to_clear : r <= m
      RECURSIVE remove(_, _)
      remove(l, row) ==
        IF row < 0 THEN l
        ELSE LET m == IF row \in lines_to_clear THEN DeleteRow(l, row) ELSE l
             IN  IF m = m THEN remove(m, row - 1) ELSE m
      RECURSIVE shift_down(_, _)
      shift_down(l, y) ==
        IF y < 0 THEN l
        ELSE LET shift == Cardinality(lines_to_clear)
                 m == IF shift > 0 THEN MoveRow(l, y, shift) ELSE l
             IN  IF m = m THEN shift_down(m, y - 1) ELSE m
  IN  IF lines_to_clear = {}
        THEN [cleared |-> 0, locked |-> locked]
        ELSE [cleared |-> Cardinality(lines_to_clear),
              locked  |-> shift_down(remove(locked, ROWS - 1), top - 1)]

\* The result of clear_lines: the number it returns and `locked` as it
\* leaves it.  The two loops that mutate `locked` are folds over the rows, in
\* the order of the code; the test m = m is always true and is there to make
\* TLC evaluate one pass of a loop before it starts the next.
clear_lines(grid, locked) ==
  LET lines_to_clear == {y \in 0..(ROWS - 1) :
                           \A x \in 0..(COLUMNS - 1) : grid[y][x] # None}
      top == CHOOSE m \in lines_to_clear : \A r \in lines_to_clear : r <= m
      RECURSIVE remove(_, _)
      remove(l, row) ==
        IF row < 0 THEN l
        ELSE LET m == IF row \in lines_to_clear THEN DeleteRow(l, row) ELSE l
             IN  IF m = m THEN remove(m, row - 1) ELSE m
      RECURSIVE shift_down(_, _)
      shift_down(l, y) ==
        IF y < 0 THEN l
        ELSE LET shift == Cardinality({cleared \in lines_to_clear : y < cleared})
                 m == IF shift > 0 THEN MoveRow(l, y, shift) ELSE l
             IN  IF m = m THEN shift_down(m, y - 1) ELSE m
  IN  IF lines_to_clear = {}
        THEN [cleared |-> 0, locked |-> locked]
        ELSE [cleared |-> Cardinality(lines_to_clear),
              locked  |-> shift_down(remove(locked, ROWS - 1), top - 1)]

\* ---------- Piece class (tetris.py:193-229) ----------

\* Piece that puts the left edge of the shape on the middle column.
Piece_off_centre(type_key) ==
  LET shape == TETROMINOES[type_key][1]
  IN  [type     |-> type_key,
       rotation |-> 0,
       shape    |-> shape,
       x        |-> COLUMNS \div 2,
       y        |-> 0 - Len(shape),
       color    |-> COLORS[KeyIndex(type_key)]]

\* Piece.__init__: a fresh piece of the given type.
Piece(type_key) ==
  LET shape == TETROMINOES[type_key][1]
  IN  [type     |-> type_key,
       rotation |-> 0,
       shape    |-> shape,
       x        |-> (COLUMNS \div 2) - (Len(shape[1]) \div 2),
       y        |-> 0 - Len(shape),
       color    |-> COLORS[KeyIndex(type_key)]]

\* rotations that loses the last state of a piece with four.
rotations_short(p) ==
  IF Len(TETROMINOES[p.type]) = 4
    THEN SubSeq(TETROMINOES[p.type], 1, 3)
    ELSE TETROMINOES[p.type]

\* self.rotations of a piece.
rotations(p) == TETROMINOES[p.type]

\* The kicks with the right one tried before the left one.
KICKS_right_first == <<1, -1, 2, -2>>

\* The wall kicks in the order the loops try them.
KICKS == <<-1, 1, -2, 2>>

\* settle_rotation with a floor kick: one row up when no wall kick applies.
settle_rotation_floor_kick(old, turned, locked) ==
  LET RECURSIVE kick(_)
      kick(i) ==
        IF i > Len(KICKS)
          THEN IF valid_space(turned.shape, turned.x, turned.y - 1, locked)
                 THEN [piece |-> [turned EXCEPT !.y = turned.y - 1], ret |-> TRUE]
                 ELSE [piece |-> old, ret |-> FALSE]
        ELSE IF valid_space(turned.shape, turned.x + KICKS[i], turned.y, locked)
          THEN [piece |-> [turned EXCEPT !.x = turned.x + KICKS[i]], ret |-> TRUE]
        ELSE kick(i + 1)
  IN  IF ~valid_space(turned.shape, turned.x, turned.y, locked)
        THEN kick(1)
        ELSE [piece |-> turned, ret |-> TRUE]

\* settle_rotation that leaves the piece turned when no kick applies.
settle_rotation_no_revert(old, turned, locked) ==
  LET RECURSIVE kick(_)
      kick(i) ==
        IF i > Len(KICKS)
          THEN [piece |-> turned, ret |-> FALSE]
        ELSE IF valid_space(turned.shape, turned.x + KICKS[i], turned.y, locked)
          THEN [piece |-> [turned EXCEPT !.x = turned.x + KICKS[i]], ret |-> TRUE]
        ELSE kick(i + 1)
  IN  IF ~valid_space(turned.shape, turned.x, turned.y, locked)
        THEN kick(1)
        ELSE [piece |-> turned, ret |-> TRUE]

\* The tail shared by rotate and rotate_ccw once self.rotation and
\* self.shape are set to the new state: the piece as the method leaves it
\* and the value it returns.
settle_rotation(old, turned, locked) ==
  LET RECURSIVE kick(_)
      kick(i) ==
        IF i > Len(KICKS)
          THEN [piece |-> [turned EXCEPT !.rotation = old.rotation,
                                         !.shape = rotations(old)[old.rotation + 1]],
                ret   |-> FALSE]
        ELSE IF valid_space(turned.shape, turned.x + KICKS[i], turned.y, locked)
          THEN [piece |-> [turned EXCEPT !.x = turned.x + KICKS[i]], ret |-> TRUE]
        ELSE kick(i + 1)
  IN  IF ~valid_space(turned.shape, turned.x, turned.y, locked)
        THEN kick(1)
        ELSE [piece |-> turned, ret |-> TRUE]

\* Piece.rotate (clockwise).
Piece_rotate(p, locked) ==
  LET rotation == (p.rotation + 1) % Len(rotations(p))
      turned   == [p EXCEPT !.rotation = rotation,
                            !.shape = rotations(p)[rotation + 1]]
  IN  settle_rotation(p, turned, locked)

\* Piece.rotate_ccw.  Python's % of a negative number by a positive one is
\* non-negative, as is the % of TLA+.
Piece_rotate_ccw(p, locked) ==
  LET rotation == (p.rotation - 1) % Len(rotations(p))
      turned   == [p EXCEPT !.rotation = rotation,
                            !.shape = rotations(p)[rotation + 1]]
  IN  settle_rotation(p, turned, locked)

\* ---------- Bounds of the model ----------

\* Calls of lock_piece explored in one behaviour.
MaxLocks == 1

\* The keys random.choice(PIECE_KEYS) is let to return: a type with two
\* rotation states and the one with a single state.
Drawn == {"I", "O"}

\* ---------- Game class (tetris.py:232-260, 372-398) ----------

\* self.fall_speed is a float of seconds that the run loop reads only as
\* int(self.fall_speed * 1000), at lines 402 and 464; the model keeps that
\* integer of milliseconds.  The entries are the values of
\* int(max(0.05, 0.6 - (level - 1) * 0.05) * 1000) in the IEEE-754 double
\* arithmetic of Python: 0.6 - 0.05 is 0.5499999999999999, not 0.55, and
\* int() truncates; 0.6 - 11 * 0.05 is below 0.05, so from level 12 on the
\* maximum is 0.05.
fall_speed_ms(lvl) ==
  IF lvl >= 12 THEN 50
  ELSE <<600, 549, 500, 449, 399, 350, 299, 249, 199, 149, 99>>[lvl]

\* score_table without the entry for four rows.
score_table_get_no_tetris(cleared) ==
  CASE cleared = 1 -> 40
    [] cleared = 2 -> 100
    [] cleared = 3 -> 300
    [] OTHER -> 0

\* score_table.get(cleared, 0)
score_table_get(cleared) ==
  CASE cleared = 1 -> 40
    [] cleared = 2 -> 100
    [] cleared = 3 -> 300
    [] cleared = 4 -> 1200
    [] OTHER -> 0

\* self.locked[(x, y)] = color
Put(locked, cell, color) ==
  (cell :> color) @@ locked

\* The empty dict.
EmptyLocked == <<>>

\* reset that starts at level 0.
reset_level_zero(key1, key2) ==
  [locked     |-> <<>>,
   current    |-> Piece(key1),
   next_piece |-> Piece(key2),
   fall_speed |-> 600,
   score      |-> 0,
   lines      |-> 0,
   level      |-> 0,
   game_over  |-> FALSE]

\* Tetris.reset, with the two keys get_new_piece draws.  The fields are
\* those of the Tetris object that the engine reads and writes.
reset(key1, key2) ==
  [locked     |-> EmptyLocked,
   current    |-> Piece(key1),
   next_piece |-> Piece(key2),
   fall_speed |-> 600,
   score      |-> 0,
   lines      |-> 0,
   level      |-> 1,
   game_over  |-> FALSE]

\* Variants of the definitions below that differ from the source in the one
\* place their names say; a property that tells the source from its variant
\* is a property that looks at that place.
\* lock_cells that stops at the first cell above the top.
lock_cells_stop(s, cells, color) ==
  LET RECURSIVE visit(_, _)
      visit(t, i) ==
        IF i > Len(cells) THEN t
        ELSE IF cells[i][2] < 0 THEN [t EXCEPT !.game_over = TRUE]
        ELSE visit([t EXCEPT !.locked = Put(t.locked, cells[i], color)], i + 1)
  IN  visit(s, 1)

\* lock_cells that takes row 0 for a row above the top.
lock_cells_at_zero(s, cells, color) ==
  LET RECURSIVE visit(_, _)
      visit(t, i) ==
        IF i > Len(cells) THEN t
        ELSE visit(IF cells[i][2] <= 0
                     THEN [t EXCEPT !.game_over = TRUE]
                     ELSE [t EXCEPT !.locked = Put(t.locked, cells[i], color)],
                   i + 1)
  IN  visit(s, 1)

\* lock_cells that writes the cells above the top as well.
lock_cells_above(s, cells, color) ==
  LET RECURSIVE visit(_, _)
      visit(t, i) ==
        IF i > Len(cells) THEN t
        ELSE visit(IF cells[i][2] < 0
                     THEN [t EXCEPT !.game_over = TRUE,
                                    !.locked = Put(t.locked, cells[i], color)]
                     ELSE [t EXCEPT !.locked = Put(t.locked, cells[i], color)],
                   i + 1)
  IN  visit(s, 1)

\* score_lock that pays at the level after the lock.
score_lock_new_level(g, cleared) ==
  LET lines == g.lines + cleared
      lvl   == (lines \div 10) + 1
  IN  [g EXCEPT !.score = g.score + score_table_get(cleared) * lvl,
                !.lines = lines,
                !.level = lvl,
                !.fall_speed = fall_speed_ms(lvl)]

\* score_lock that takes the level from the lines before the lock.
score_lock_stale_level(g, cleared) ==
  LET lines == g.lines + cleared
      lvl   == (g.lines \div 10) + 1
  IN  [g EXCEPT !.score = g.score + score_table_get(cleared) * g.level,
                !.lines = lines,
                !.level = lvl,
                !.fall_speed = fall_speed_ms(lvl)]

\* The for loop of lock_piece over the cells of the current piece: `s` is
\* the pair of self.locked and self.game_over.
lock_cells(s, cells, color) ==
  LET RECURSIVE visit(_, _)
      visit(t, i) ==
        IF i > Len(cells) THEN t
        ELSE visit(IF cells[i][2] < 0
                     THEN [t EXCEPT !.game_over = TRUE]
                     ELSE [t EXCEPT !.locked = Put(t.locked, cells[i], color)],
                   i + 1)
  IN  visit(s, 1)

\* The scoring block of lock_piece, run when `cleared` is not zero.
score_lock(g, cleared) ==
  LET lines == g.lines + cleared
      lvl   == (lines \div 10) + 1
  IN  [g EXCEPT !.score = g.score + score_table_get(cleared) * g.level,
                !.lines = lines,
                !.level = lvl,
                !.fall_speed = fall_speed_ms(lvl)]

\* Tetris.lock_piece on the game g, with the key get_new_piece draws: the
\* fields of the object as it leaves them and its local `cleared`.
lock_piece(g, key) ==
  LET cells  == shape_cells(g.current.shape, g.current.x, g.current.y)
      placed == lock_cells([locked |-> g.locked, game_over |-> g.game_over],
                           cells, g.current.color)
      grid   == make_grid(placed.locked)
      res    == clear_lines(grid, placed.locked)
      g1     == [g EXCEPT !.locked = res.locked, !.game_over = placed.game_over]
      g2     == IF res.cleared # 0 THEN score_lock(g1, res.cleared) ELSE g1
  IN  [locked     |-> g2.locked,
       current    |-> g.next_piece,
       next_piece |-> Piece(key),
       fall_speed |-> g2.fall_speed,
       score      |-> g2.score,
       lines      |-> g2.lines,
       level      |-> g2.level,
       game_over  |-> g2.game_over,
       cleared    |-> res.cleared]

\* drop with an if for the while: one row at most.
drop_one_row(p, locked) ==
  IF valid_space(p.shape, p.x, p.y + 1, locked) THEN [p EXCEPT !.y = p.y + 1] ELSE p

\* The while loop of hard_drop: the piece where it comes to rest.
drop(p, locked) ==
  LET RECURSIVE fall(_)
      fall(y) == IF valid_space(p.shape, p.x, y + 1, locked) THEN fall(y + 1) ELSE y
  IN  [p EXCEPT !.y = fall(p.y)]

\* Tetris.hard_drop.
hard_drop(g, key) ==
  lock_piece([g EXCEPT !.current = drop(g.current, g.locked)], key)

\* The three one-cell moves of run and _perform_pad_action: validate, then
\* commit.
\* move_left that validates the placement the piece is at.
move_left_unchecked(p, locked) ==
  IF valid_space(p.shape, p.x, p.y, locked) THEN [p EXCEPT !.x = p.x - 1] ELSE p

move_left(p, locked) ==
  IF valid_space(p.shape, p.x - 1, p.y, locked) THEN [p EXCEPT !.x = p.x - 1] ELSE p

move_right(p, locked) ==
  IF valid_space(p.shape, p.x + 1, p.y, locked) THEN [p EXCEPT !.x = p.x + 1] ELSE p

\* move_down that validates the placement the piece is at.
move_down_unchecked(p, locked) ==
  IF valid_space(p.shape, p.x, p.y, locked) THEN [p EXCEPT !.y = p.y + 1] ELSE p

move_down(p, locked) ==
  IF valid_space(p.shape, p.x, p.y + 1, locked) THEN [p EXCEPT !.y = p.y + 1] ELSE p

\* The actions of the on-screen pad, in the order of the pad_state dict.
PAD_ACTIONS == <<"left", "right", "down", "rotate">>

\* Tetris._perform_pad_action: the current piece after the action.
perform_pad_action(act, p, locked) ==
  CASE act = "left"   -> move_left(p, locked)
    [] act = "right"  -> move_right(p, locked)
    [] act = "down"   -> move_down(p, locked)
    [] act = "rotate" -> Piece_rotate(p, locked).piece

\* ---------- State ----------
VARIABLES
  locked,      \* self.locked: (x, y) -> color
  current,     \* self.current
  next_piece,  \* self.next_piece
  fall_speed,  \* self.fall_speed, in the milliseconds the run loop reads
  score,       \* self.score
  lines,       \* self.lines
  level,       \* self.level
  game_over,   \* self.game_over
  pad_state,   \* self.pad_state: action -> holding
  pc,          \* where the program is: "events" (the event loop of a frame of
               \* run), "pad" (the pad repeats that end a frame), "over" (the
               \* loop of show_game_over), "call" (a helper function is about
               \* to be called on its own), "done" (it has returned)
  last,        \* history: the last operation and what it did
  nlocks,      \* history: calls of lock_piece so far
  probe        \* the arguments and the result of a helper called on its own

vars == <<locked, current, next_piece, fall_speed, score, lines, level,
          game_over, pad_state, pc, last, nlocks, probe>>

\* The fields of the Tetris object as one record, and back.
Game ==
  [locked |-> locked, current |-> current, next_piece |-> next_piece,
   fall_speed |-> fall_speed, score |-> score, lines |-> lines,
   level |-> level, game_over |-> game_over]

Become(g) ==
  /\ locked' = g.locked
  /\ current' = g.current
  /\ next_piece' = g.next_piece
  /\ fall_speed' = g.fall_speed
  /\ score' = g.score
  /\ lines' = g.lines
  /\ level' = g.level
  /\ game_over' = g.game_over

\* A history record: the operation, the piece it acted on (for a lock, the
\* piece where it was locked), the rows a lock cleared, the value a rotation
\* returned and the kick it applied.
Last(op, piece, cleared, ret, dx) ==
  [op |-> op, piece |-> piece, cleared |-> cleared, ret |-> ret, dx |-> dx]

NoPiece == <<>>

Holding == {a \in DOMAIN pad_state : pad_state[a]}

\* Where a frame of run goes once its events and its gravity check are
\* done: draw, then _handle_pad_repeats, then the game-over test at the head
\* of the loop.
AfterGravity(over) ==
  IF Holding # {} THEN "pad" ELSE IF over THEN "over" ELSE "events"

\* ---------- Key events of run (tetris.py:414-433) ----------
KeyLeft ==
  /\ pc = "events"
  /\ current' = move_left(current, locked)
  /\ last' = Last("left", NoPiece, 0, TRUE, 0)
  /\ UNCHANGED <<locked, next_piece, fall_speed, score, lines, level,
                 game_over, pad_state, pc, nlocks, probe>>

KeyRight ==
  /\ pc = "events"
  /\ current' = move_right(current, locked)
  /\ last' = Last("right", NoPiece, 0, TRUE, 0)
  /\ UNCHANGED <<locked, next_piece, fall_speed, score, lines, level,
                 game_over, pad_state, pc, nlocks, probe>>

KeyDown ==
  /\ pc = "events"
  /\ current' = move_down(current, locked)
  /\ last' = Last("down", NoPiece, 0, TRUE, 0)
  /\ UNCHANGED <<locked, next_piece, fall_speed, score, lines, level,
                 game_over, pad_state, pc, nlocks, probe>>

\* K_UP or K_x
KeyRotate ==
  /\ pc = "events"
  /\ \E r \in {Piece_rotate(current, locked)} :
        /\ current' = r.piece
        /\ last' = Last("rotate", NoPiece, 0, r.ret, r.piece.x - current.x)
  /\ UNCHANGED <<locked, next_piece, fall_speed, score, lines, level,
                 game_over, pad_state, pc, nlocks, probe>>

\* K_z
KeyRotateCCW ==
  /\ pc = "events"
  /\ \E r \in {Piece_rotate_ccw(current, locked)} :
        /\ current' = r.piece
        /\ last' = Last("rotate_ccw", NoPiece, 0, r.ret, r.piece.x - current.x)
  /\ UNCHANGED <<locked, next_piece, fall_speed, score, lines, level,
                 game_over, pad_state, pc, nlocks, probe>>

\* K_SPACE
KeySpace ==
  /\ pc = "events"
  /\ nlocks < MaxLocks
  /\ \E key \in Drawn : \E g \in {hard_drop(Game, key)} :
        /\ Become(g)
        /\ last' = Last("hard_drop", drop(current, locked), g.cleared, TRUE, 0)
  /\ nlocks' = nlocks + 1
  /\ UNCHANGED <<pad_state, pc, probe>>

\* ---------- Gravity (tetris.py:461-473) and the end of a frame ----------
\* The timer is due and the piece can fall.
GravityFall ==
  /\ pc = "events"
  /\ valid_space(current.shape, current.x, current.y + 1, locked)
  /\ current' = [current EXCEPT !.y = current.y + 1]
  /\ pc' = AfterGravity(game_over)
  /\ last' = Last("tick", NoPiece, 0, TRUE, 0)
  /\ UNCHANGED <<locked, next_piece, fall_speed, score, lines, level,
                 game_over, pad_state, nlocks, probe>>

\* The timer is due and the piece is blocked: lock it, and leave for the
\* game-over screen at once when the lock ended the game.
GravityLock ==
  /\ pc = "events"
  /\ ~valid_space(current.shape, current.x, current.y + 1, locked)
  /\ nlocks < MaxLocks
  /\ \E key \in Drawn : \E g \in {lock_piece(Game, key)} :
        /\ Become(g)
        /\ last' = Last("tick_lock", current, g.cleared, TRUE, 0)
  /\ pc' = IF game_over' THEN "over" ELSE AfterGravity(FALSE)
  /\ nlocks' = nlocks + 1
  /\ UNCHANGED <<pad_state, probe>>

\* A frame whose timer is not due.  With nothing held and the game on, it
\* changes nothing and is left to stuttering.
FrameEnd ==
  /\ pc = "events"
  /\ game_over \/ Holding # {}
  /\ pc' = AfterGravity(game_over)
  /\ last' = Last("frame", NoPiece, 0, TRUE, 0)
  /\ UNCHANGED <<locked, current, next_piece, fall_speed, score, lines, level,
                 game_over, pad_state, nlocks, probe>>

\* ---------- The game-over screen (tetris.py:483-504) ----------
\* K_r: reset, then run again.
Restart ==
  /\ pc = "over"
  /\ \E key1 \in Drawn, key2 \in Drawn : Become(reset(key1, key2))
  /\ pc' = "events"
  /\ last' = Last("reset", NoPiece, 0, TRUE, 0)
  /\ UNCHANGED <<pad_state, nlocks, probe>>

\* ---------- Initial states ----------
\* Every initial state is a state of a game in progress, built here by
\* playing it: a drop names a piece type, a rotation state and a column; the
\* piece is turned and moved there on its spawn row, where every cell is
\* above the board and the placement is valid whenever its columns are, and
\* then hard-dropped.
Drop(type_key, rotation, x) == [type |-> type_key, rotation |-> rotation, x |-> x]

Placed(d) ==
  [Piece(d.type) EXCEPT !.rotation = d.rotation,
                        !.shape = TETROMINOES[d.type][d.rotation + 1],
                        !.x = d.x]

AsGame(g) ==
  [locked |-> g.locked, current |-> g.current, next_piece |-> g.next_piece,
   fall_speed |-> g.fall_speed, score |-> g.score, lines |-> g.lines,
   level |-> g.level, game_over |-> g.game_over]

\* One drop: the piece is placed and hard-dropped, and an I piece is drawn.
\* The game is bound as a value before hard_drop reads its fields.
PlayOne(g, d) ==
  CHOOSE r \in { AsGame(hard_drop([h EXCEPT !.current = Placed(d)], "I")) : h \in {g} } : TRUE

\* The drops played in order from game g, the sequence split in halves.
Play(g, drops) ==
  LET RECURSIVE run(_, _, _)
      run(h, a, b) ==
        IF a > b THEN h
        ELSE IF a = b THEN PlayOne(h, drops[a])
        ELSE CHOOSE r \in { run(m, ((a + b) \div 2) + 1, b) :
                              m \in {run(h, a, (a + b) \div 2)} } : TRUE
  IN  run(g, 1, Len(drops))

\* Ten upright I pieces, one in each column: four full rows, cleared by the
\* last one, and the board is as it was.
TetrisCycle == [c \in 1..COLUMNS |-> Drop("I", 1, c - 3)]

\* The drops of k tetris cycles.
Cycles(k) == [i \in 1..(k * COLUMNS) |-> TetrisCycle[((i - 1) % COLUMNS) + 1]]

\* A stack that leaves an upright I piece one column to fall into.  Columns
\* 1..8 are filled with `layers` layers of upright I pieces and column 9 with
\* one layer more; column 0 stays empty under the flat I pieces that cover
\* it.  Above the layers come 4 - depth rows of flat I pieces over columns
\* 1..8, then `depth` rows over columns 0..7: column 8 is a well `depth` rows
\* deep whose rows lack nothing else.
Stack(layers, depth) ==
  LET body == [i \in 1..(8 * layers) |-> Drop("I", 1, ((i - 1) % 8) - 1)]
      side == [i \in 1..(layers + 1) |-> Drop("I", 1, 7)]
      low  == [i \in 1..(2 * (4 - depth)) |-> Drop("I", 0, 1 + 4 * ((i - 1) % 2))]
      high == [i \in 1..(2 * depth) |-> Drop("I", 0, 4 * ((i - 1) % 2))]
  IN  body \o side \o low \o high

\* The games the model starts from: tetris cycles played first (they set the
\* lines, the level and the score), then a stack, then the two pieces drawn.
Start(cycles, layers, depth, key1, key2) ==
  LET g == Play(reset("I", "I"), Cycles(cycles) \o Stack(layers, depth))
  IN  [g EXCEPT !.current = Piece(key1), !.next_piece = Piece(key2)]

\* The game as the constructor leaves it.
Fresh == {reset("O", "I")}

Starts ==
  { Start(0, 3, 1, "I", "O"),
    Start(2, 3, 2, "I", "O"),
    Start(2, 3, 3, "I", "I"),
    Start(5, 3, 4, "I", "O"),
    Start(29, 3, 4, "I", "I"),
    Start(0, 4, 3, "I", "O"),
    Start(2, 4, 2, "O", "I") }

NotHolding == [a \in {PAD_ACTIONS[i] : i \in 1..Len(PAD_ACTIONS)} |-> FALSE]

\* The variables of the game are the fields of g.
IsGame(g) ==
  /\ locked = g.locked
  /\ current = g.current
  /\ next_piece = g.next_piece
  /\ fall_speed = g.fall_speed
  /\ score = g.score
  /\ lines = g.lines
  /\ level = g.level
  /\ game_over = g.game_over

Init ==
  /\ \E g \in Fresh \cup Starts : IsGame(g)
  /\ pad_state = NotHolding
  /\ pc = "events"
  /\ last = Last("init", NoPiece, 0, TRUE, 0)
  /\ nlocks = 0
  /\ probe = <<>>

Next ==
  \/ KeyLeft
  \/ KeyRight
  \/ KeyDown
  \/ KeyRotate
  \/ KeyRotateCCW
  \/ KeySpace
  \/ GravityFall
  \/ GravityLock
  \/ FrameEnd
  \/ Restart

Spec == Init /\ [][Next]_vars

\* ---------- The game under a gravity timer that keeps coming due ----------
\* Every frame of run adds the time of the frame to fall_time (line 462)
\* and runs the gravity step once fall_time has reached the fall interval
\* (line 464); no event postpones it.  So a gravity step that stays possible
\* is taken: weak fairness of Gravity.
Gravity == GravityFall \/ GravityLock

\* ENABLED <<Gravity>>_vars, written as the guards of the two actions: the
\* frame loop is at its events, and the piece can fall or a lock is within
\* the bound.  lock_piece is defined for every game and a key can always be
\* drawn, and a gravity step changes the anchor row or the number of locks.
GravityDue ==
  /\ pc = "events"
  /\ \/ valid_space(current.shape, current.x, current.y + 1, locked)
     \/ nlocks < MaxLocks

\* WF_vars(Gravity) with GravityDue for its ENABLED.
GravityFairness == ([]<>~GravityDue) \/ ([]<><<Gravity>>_vars)

\* It starts from the stack that reaches row 0, where a lock can end the
\* game, and from a lower one.
LiveStarts == { Start(0, 4, 3, "I", "O"), Start(0, 3, 2, "O", "I") }

InitLive ==
  /\ \E g \in LiveStarts : IsGame(g)
  /\ pad_state = NotHolding
  /\ pc = "events"
  /\ last = Last("init", NoPiece, 0, TRUE, 0)
  /\ nlocks = 0
  /\ probe = <<>>

\* WF_vars(GravityFall) follows from GravityFairness: while the piece can
\* fall, every gravity step is a fall.
SpecLive ==
  InitLive /\ [][Next]_vars /\ GravityFairness /\ WF_vars(GravityFall)

\* ---------- The moves and rotations alone ----------
\* Every piece type, on three of the stacks and on a board whose only cells
\* are one upright I piece in column 4; column 0 of the first stack is an
\* open well.  No lock is taken, so the board stays as it starts.
Peak == Play(reset("I", "I"), <<Drop("I", 1, 2)>>)

MoveStarts ==
  { Start(0, 3, 0, key, "I") : key \in DOMAIN TETROMINOES } \cup
  { Start(0, 3, 2, key, "I") : key \in DOMAIN TETROMINOES } \cup
  { Start(0, 4, 3, key, "I") : key \in DOMAIN TETROMINOES } \cup
  { [Peak EXCEPT !.current = Piece(key)] : key \in DOMAIN TETROMINOES }

InitMoves ==
  /\ \E g \in MoveStarts : IsGame(g)
  /\ pad_state = NotHolding
  /\ pc = "events"
  /\ last = Last("init", NoPiece, 0, TRUE, 0)
  /\ nlocks = 0
  /\ probe = <<>>

NextMoves ==
  \/ KeyLeft
  \/ KeyRight
  \/ KeyDown
  \/ KeyRotate
  \/ KeyRotateCCW
  \/ GravityFall

SpecMoves == InitMoves /\ [][NextMoves]_vars

\* ---------- The on-screen pad (tetris.py:351-370, 436-459) ----------
\* pad_state keeps, for each action, whether it is held.  The timestamp
\* state['last'] is left out: whether a held action is due for a repeat
\* depends on the clock, so any set of held actions may be due.

\* MOUSEBUTTONDOWN on the button of `act`: the action at once, then the hold.
MouseDown(act) ==
  /\ pc = "events"
  /\ current' = perform_pad_action(act, current, locked)
  /\ pad_state' = [pad_state EXCEPT ![act] = TRUE]
  /\ last' = Last("pad_" \o act, NoPiece, 0, current' # current, current'.x - current.x)
  /\ UNCHANGED <<locked, next_piece, fall_speed, score, lines, level,
                 game_over, pc, nlocks, probe>>

\* MOUSEBUTTONUP releases every hold.  So does MOUSEMOTION to a point off
\* the buttons while something is held.
MouseUp ==
  /\ pc = "events"
  /\ pad_state' = NotHolding
  /\ last' = Last("mouse_up", NoPiece, 0, TRUE, 0)
  /\ UNCHANGED <<locked, current, next_piece, fall_speed, score, lines, level,
                 game_over, pc, nlocks, probe>>

MouseMotionOff ==
  /\ pc = "events"
  /\ Holding # {}
  /\ pad_state' = NotHolding
  /\ last' = Last("mouse_off", NoPiece, 0, TRUE, 0)
  /\ UNCHANGED <<locked, current, next_piece, fall_speed, score, lines, level,
                 game_over, pc, nlocks, probe>>

\* The loop of _handle_pad_repeats over the dict, for the actions in `due`.
handle_pad_repeats(due, p, l) ==
  LET RECURSIVE loop(_, _)
      loop(i, q) ==
        IF i > Len(PAD_ACTIONS) THEN q
        ELSE loop(i + 1, IF PAD_ACTIONS[i] \in due
                           THEN perform_pad_action(PAD_ACTIONS[i], q, l)
                           ELSE q)
  IN  loop(1, p)

\* _handle_pad_repeats at the end of a frame, then the head of the loop of
\* run.  The history keeps the actions that were due.
PadRepeats ==
  /\ pc = "pad"
  /\ \E due \in SUBSET Holding :
        /\ current' = handle_pad_repeats(due, current, locked)
        /\ last' = Last("repeat", due, 0, TRUE, 0)
  /\ pc' = IF game_over THEN "over" ELSE "events"
  /\ UNCHANGED <<locked, next_piece, fall_speed, score, lines, level,
                 game_over, pad_state, nlocks, probe>>

\* Every piece type over the stack that reaches row 0.  No lock is taken.
PadStarts == { Start(0, 4, 3, key, "I") : key \in DOMAIN TETROMINOES }

InitPad ==
  /\ \E g \in PadStarts : IsGame(g)
  /\ pad_state = NotHolding
  /\ pc = "events"
  /\ last = Last("init", NoPiece, 0, TRUE, 0)
  /\ nlocks = 0
  /\ probe = <<>>

NextPad ==
  \/ KeyLeft
  \/ KeyRight
  \/ KeyDown
  \/ KeyRotate
  \/ \E i \in 1..Len(PAD_ACTIONS) : MouseDown(PAD_ACTIONS[i])
  \/ MouseUp
  \/ MouseMotionOff
  \/ GravityFall
  \/ FrameEnd
  \/ PadRepeats

SpecPad == InitPad /\ [][NextPad]_vars

\* ---------- Runs of rotate commands ----------
\* The moves and the clockwise rotation, with a history of the run of
\* consecutive rotate commands kept in `probe`: how many there were, the
\* piece before the first, whether one of them was kicked and whether one
\* of them failed.  A run ends with any other command or tick, and with the
\* command that makes it as long as the piece has rotation states.
NoRun == [n |-> 0, from |-> NoPiece, kicked |-> FALSE, failed |-> FALSE]

RunOpen == probe.n > 0 /\ probe.n < Len(TETROMINOES[current.type])

RunRotate ==
  /\ pc = "events"
  /\ \E r \in {Piece_rotate(current, locked)} :
        /\ current' = r.piece
        /\ last' = Last("rotate", NoPiece, 0, r.ret, r.piece.x - current.x)
        /\ probe' = [n      |-> IF RunOpen THEN probe.n + 1 ELSE 1,
                     from   |-> IF RunOpen THEN probe.from ELSE current,
                     kicked |-> (RunOpen /\ probe.kicked) \/ r.piece.x # current.x,
                     failed |-> (RunOpen /\ probe.failed) \/ ~r.ret]
  /\ UNCHANGED <<locked, next_piece, fall_speed, score, lines, level,
                 game_over, pad_state, pc, nlocks>>

RunLeft ==
  /\ pc = "events"
  /\ current' = move_left(current, locked)
  /\ last' = Last("left", NoPiece, 0, TRUE, 0)
  /\ probe' = NoRun
  /\ UNCHANGED <<locked, next_piece, fall_speed, score, lines, level,
                 game_over, pad_state, pc, nlocks>>

RunRight ==
  /\ pc = "events"
  /\ current' = move_right(current, locked)
  /\ last' = Last("right", NoPiece, 0, TRUE, 0)
  /\ probe' = NoRun
  /\ UNCHANGED <<locked, next_piece, fall_speed, score, lines, level,
                 game_over, pad_state, pc, nlocks>>

\* K_DOWN, and the gravity tick of a piece that can fall.
RunDown ==
  /\ pc = "events"
  /\ current' = move_down(current, locked)
  /\ last' = Last("down", NoPiece, 0, TRUE, 0)
  /\ probe' = NoRun
  /\ UNCHANGED <<locked, next_piece, fall_speed, score, lines, level,
                 game_over, pad_state, pc, nlocks>>

\* Every piece type over the stack with the open well in column 0 and over
\* the board with one upright I piece.
SpinStarts ==
  { Start(0, 3, 0, key, "I") : key \in DOMAIN TETROMINOES } \cup
  { [Peak EXCEPT !.current = Piece(key)] : key \in DOMAIN TETROMINOES }

InitSpin ==
  /\ \E g \in SpinStarts : IsGame(g)
  /\ pad_state = NotHolding
  /\ pc = "events"
  /\ last = Last("init", NoPiece, 0, TRUE, 0)
  /\ nlocks = 0
  /\ probe = NoRun

NextSpin ==
  \/ RunRotate
  \/ RunLeft
  \/ RunRight
  \/ RunDown

SpecSpin == InitSpin /\ [][NextSpin]_vars

\* ---------- The helper functions called on their own ----------
\* The rows a board is made of: an empty row, a full one, one with a single
\* cell in column 3, and one that lacks only column 9.
ROW_KINDS == <<"empty", "full", "single", "gap">>

RowCells(kind, y) ==
  CASE kind = "empty"  -> {}
    [] kind = "full"   -> {<<x, y>> : x \in 0..(COLUMNS - 1)}
    [] kind = "single" -> {<<3, y>>}
    [] kind = "gap"    -> {<<x, y>> : x \in 0..(COLUMNS - 2)}

\* Rows of a board that are not left empty.
MaxBoardRows == 4

\* The board whose rows top, top + 1, ... are of the given kinds; the color
\* of a cell tells its column and its row apart from its neighbours'.
BoardOf(top, kinds) ==
  LET cells == UNION {RowCells(kinds[i], top + i - 1) : i \in 1..Len(kinds)}
  IN  Dict([c \in cells |-> COLORS[((c[1] + 3 * c[2]) % Len(COLORS)) + 1]])

Boards ==
  { BoardOf(top, kinds) :
      top \in {0, 4, ROWS - MaxBoardRows},
      kinds \in [1..MaxBoardRows -> {ROW_KINDS[i] : i \in 1..Len(ROW_KINDS)}] }

Idle ==
  /\ IsGame(reset("I", "I"))
  /\ pad_state = NotHolding
  /\ last = Last("init", NoPiece, 0, TRUE, 0)
  /\ nlocks = 0

\* clear_lines, called as lock_piece calls it: on make_grid(locked) and locked.
InitClear ==
  /\ Idle
  /\ pc = "call"
  /\ \E b \in Boards :
        probe = [fn |-> "clear_lines", locked |-> b, out |-> [cleared |-> 0, locked |-> b]]

CallClearLines ==
  /\ pc = "call"
  /\ probe.fn = "clear_lines"
  /\ probe' = [probe EXCEPT !.out = clear_lines(make_grid(probe.locked), probe.locked)]
  /\ pc' = "done"
  /\ UNCHANGED <<locked, current, next_piece, fall_speed, score, lines, level,
                 game_over, pad_state, last, nlocks>>

SpecClear == InitClear /\ [][CallClearLines]_vars

\* How far outside the board a placement is tried.
MaxOutside == 3

\* Every rotation state of every type.
Shapes ==
  UNION { { TETROMINOES[k][i] : i \in 1..Len(TETROMINOES[k]) } : k \in DOMAIN TETROMINOES }

\* The dicts valid_space is called on: the empty one, the board of a game in
\* progress, and a dict with keys above the top.  No game has the last, for
\* lock_piece writes no such key; valid_space takes any dict.
InProgress == Start(0, 3, 2, "I", "I").locked

ValidBoards ==
  { EmptyLocked,
    InProgress,
    BoardOf(0 - 2, <<"gap", "single", "empty", "gap">>) }

InitValid ==
  /\ Idle
  /\ pc = "call"
  /\ \E shape \in Shapes,
        x \in (0 - MaxOutside)..(COLUMNS - 1 + MaxOutside),
        y \in (0 - MaxOutside - 1)..(ROWS - 1 + MaxOutside),
        b \in ValidBoards :
        probe = [fn |-> "valid_space", shape |-> shape, x |-> x, y |-> y,
                 locked |-> b, out |-> FALSE]

CallValidSpace ==
  /\ pc = "call"
  /\ probe.fn = "valid_space"
  /\ probe' = [probe EXCEPT !.out = valid_space(probe.shape, probe.x, probe.y, probe.locked)]
  /\ pc' = "done"
  /\ UNCHANGED <<locked, current, next_piece, fall_speed, score, lines, level,
                 game_over, pad_state, last, nlocks>>

SpecValid == InitValid /\ [][CallValidSpace]_vars

\* ---------- What the properties are stated with ----------
\* These say what a result must be without computing it the way the code
\* does.

\* The cells a piece occupies, as a set.
Cells(p) ==
  { <<p.x + j - 1, p.y + i - 1>> :
      <<i, j>> \in { ij \in (1..Len(p.shape)) \X (1..Len(p.shape[1])) :
                       p.shape[ij[1]][ij[2]] = "1" } }

AboveTop(p) == \E c \in Cells(p) : c[2] < 0

\* A placement is valid: every cell within the columns, not below the floor,
\* and free unless it is above the top.
ValidPlacement(shape, x, y, l) ==
  \A i \in 1..Len(shape), j \in 1..Len(shape[1]) :
     shape[i][j] = "1" =>
        /\ 0 <= x + j - 1
        /\ x + j - 1 < COLUMNS
        /\ y + i - 1 < ROWS
        /\ (y + i - 1 < 0 \/ <<x + j - 1, y + i - 1>> \notin DOMAIN l)

FullRows(l) ==
  { r \in 0..(ROWS - 1) : \A c \in 0..(COLUMNS - 1) : <<c, r>> \in DOMAIN l }

\* The board without its full rows, every other cell moved down by the
\* number of full rows below it.
Cleared(l) ==
  LET full == FullRows(l)
      keep == { k \in DOMAIN l : k[2] \notin full }
      to(k) == <<k[1], k[2] + Cardinality({ f \in full : f > k[2] })>>
  IN  [ t \in { to(k) : k \in keep } |-> l[CHOOSE k \in keep : to(k) = t] ]

\* The board with the cells of p that are on it written in p's color.
Written(l, p) ==
  LET on == { c \in Cells(p) : c[2] >= 0 }
  IN  [ c \in (DOMAIN l) \cup on |-> IF c \in on THEN p.color ELSE l[c] ]

Reward(n) == <<0, 40, 100, 300, 1200>>[n + 1]

\* The operations that call lock_piece; for them last.piece is the piece
\* where it was locked.
LockOps == {"hard_drop", "tick_lock"}

\* ---------- C1 ----------
\* C1 (as the specification states it): once game_over is true it stays true
\* until reset, and until then no operation changes the locked board, the
\* current piece, the score, the lines or the level.
C1_GameOverIsTerminal ==
  [][ game_over =>
        \/ last'.op = "reset"
        \/ /\ game_over'
           /\ UNCHANGED <<locked, current, score, lines, level>> ]_vars

\* ---------- C2 ----------
\* The cells of p that the loop of lock_piece visits before the first one
\* above the top, were it to stop there.
VisitedFirst(p) ==
  { c \in Cells(p) :
      \A d \in Cells(p) : d[2] < 0 => (c[2] < d[2] \/ (c[2] = d[2] /\ c[1] < d[1])) }

\* C2 (as the specification states it): a lock that meets a cell above the
\* top sets game_over and stops; no cell visited after that cell is written,
\* no line is cleared, and score, lines and level do not change.
C2_LockStopsAboveTop ==
  [][ (last'.op \in LockOps /\ AboveTop(last'.piece)) =>
        /\ game_over'
        /\ locked' = [ c \in (DOMAIN locked) \cup VisitedFirst(last'.piece) |->
                         IF c \in DOMAIN locked THEN locked[c] ELSE last'.piece.color ]
        /\ UNCHANGED <<score, lines, level>> ]_vars

\* C2 (amended): a lock that meets a cell above the top sets game_over and
\* leaves that cell unwritten, and goes on: every cell of the piece on the
\* board is written, the full rows are cleared, and score, lines and level
\* are updated as after any lock.
C2_LockGoesOnAboveTop ==
  [][ (last'.op \in LockOps /\ AboveTop(last'.piece)) =>
        LET w == Written(locked, last'.piece)
            n == Cardinality(FullRows(w))
        IN  /\ game_over'
            /\ locked' = Cleared(w)
            /\ score' = score + Reward(n) * level
            /\ lines' = lines + n
            /\ level' = IF n = 0 THEN level ELSE ((lines + n) \div 10) + 1 ]_vars

\* A piece was locked partly above the top, and the lock cleared rows.
C2_Witness ==
  /\ last.op \in LockOps
  /\ AboveTop(last.piece)
  /\ \E c \in Cells(last.piece) : c[2] >= 0
  /\ last.cleared > 0
  /\ game_over

\* ---------- C6 ----------
\* C6: a lock that clears n rows at level L adds Reward(n) * L to the score,
\* L being the level before the lock, and n to the lines; a lock that clears
\* no row leaves score, lines, level and fall interval as they were.
C6_LockScores ==
  [][ last'.op \in LockOps =>
        LET n == Cardinality(FullRows(Written(locked, last'.piece)))
        IN  /\ score' = score + Reward(n) * level
            /\ lines' = lines + n
            /\ n = 0 => UNCHANGED <<score, lines, level, fall_speed>> ]_vars

\* Four rows were cleared at level 3, after the five tetrises that gave
\* 8400 points and 20 lines: 3600 points more.
C6_Witness ==
  /\ last.op \in LockOps
  /\ last.cleared = 4
  /\ lines = 24
  /\ score = 12000

\* ---------- C7 ----------
\* C7 (as the specification states it): in every reachable state the level
\* is lines \div 10 + 1 and the fall interval is
\* max(50, 600 - (level - 1) * 50) milliseconds.
C7_LevelAndFallInterval ==
  /\ level = (lines \div 10) + 1
  /\ fall_speed = Max(50, 600 - (level - 1) * 50)

\* ---------- C8 ----------
\* C8: between resets the level never decreases and the fall interval never
\* increases; the level leaves 1 exactly when the lines reach 10, and is 2
\* then; a lock that raises the level leaves the fall interval strictly
\* smaller, or at its floor of 50 milliseconds.
C8_LevelsOnlyRise ==
  [][ last'.op # "reset" =>
        /\ level' >= level
        /\ fall_speed' <= fall_speed
        /\ (level = 1 /\ level' > 1) <=> (lines < 10 /\ lines' >= 10)
        /\ (lines < 10 /\ lines' >= 10) => level' = 2
        /\ level' > level => (fall_speed' < fall_speed \/ fall_speed' = 50) ]_vars

\* The lock that took the lines to 10 or more raised the level to 2.
C8_Witness ==
  /\ last.op \in LockOps
  /\ last.cleared > 0
  /\ lines >= 10
  /\ lines - last.cleared < 10
  /\ level = 2

\* ---------- C9 ----------
\* C9: after a lock game_over is true exactly if it was true before or a
\* cell of the locked piece is above the top, and no other operation makes
\* game_over true.
C9_GameOverOnlyByLock ==
  [][ IF last'.op \in LockOps
        THEN game_over' = (game_over \/ AboveTop(last'.piece))
        ELSE game_over' => game_over ]_vars

\* A lock of a piece with a cell above the top has ended the game.
C9_Witness ==
  /\ last.op \in LockOps
  /\ AboveTop(last.piece)
  /\ game_over

\* ---------- C3 ----------
\* C3: clear_lines returns the number of full rows and leaves on the board
\* exactly the cells of the rows that were not full, each with its color and
\* moved down by the number of full rows below it.
C3_ClearLinesIsTheReference ==
  (pc = "done" /\ probe.fn = "clear_lines") =>
     /\ probe.out.cleared = Cardinality(FullRows(probe.locked))
     /\ probe.out.locked = Cleared(probe.locked)
     /\ FullRows(probe.locked) = {} => probe.out = [cleared |-> 0, locked |-> probe.locked]

\* clear_lines has returned from a board with two full rows that are not
\* adjacent and cells above and between them.
C3_Witness ==
  /\ pc = "done"
  /\ probe.fn = "clear_lines"
  /\ probe.out.cleared = 2
  /\ \E r \in FullRows(probe.locked) :
        /\ r + 2 \in FullRows(probe.locked)
        /\ <<0, r + 1>> \in DOMAIN probe.locked
        /\ <<0, r - 1>> \in DOMAIN probe.locked

\* ---------- C4 ----------
\* Row 5 full, and the one other cell at (3, 4).
BoardC4 == BoardOf(4, <<"single", "full">>)

\* C4 (as the specification states it): on that board, after clear_lines
\* row 5 has no locked cell and the cell that was at (3, 4) is at (3, 5).
C4_RowFiveIsEmpty ==
  (pc = "done" /\ probe.fn = "clear_lines" /\ probe.locked = BoardC4) =>
     /\ \A c \in 0..(COLUMNS - 1) : <<c, 5>> \notin DOMAIN probe.out.locked
     /\ <<3, 5>> \in DOMAIN probe.out.locked
     /\ probe.out.locked[<<3, 5>>] = BoardC4[<<3, 4>>]

\* C4 (amended): on that board, after clear_lines none of the ten cells of
\* row 5 is left and row 4 has no locked cell; the cell that was at (3, 4) is
\* at (3, 5) and is the only locked cell.
C4_OnlyTheMovedCellIsLeft ==
  (pc = "done" /\ probe.fn = "clear_lines" /\ probe.locked = BoardC4) =>
     /\ probe.out.cleared = 1
     /\ DOMAIN probe.out.locked = {<<3, 5>>}
     /\ probe.out.locked[<<3, 5>>] = BoardC4[<<3, 4>>]

C4_Witness ==
  /\ pc = "done"
  /\ probe.fn = "clear_lines"
  /\ probe.locked = BoardC4
  /\ DOMAIN BoardC4 = {<<c, 5>> : c \in 0..(COLUMNS - 1)} \cup {<<3, 4>>}

\* ---------- C5 ----------
\* C5: valid_space returns true exactly if every occupied cell is within the
\* columns, above the floor, and either above the top or not locked.
C5_ValidSpaceIsThePredicate ==
  (pc = "done" /\ probe.fn = "valid_space") =>
     probe.out = ValidPlacement(probe.shape, probe.x, probe.y, probe.locked)

\* valid_space has accepted a placement on the board of a game in progress,
\* with cells above the top and cells on the board.
C5_Witness ==
  /\ pc = "done"
  /\ probe.fn = "valid_space"
  /\ probe.out
  /\ probe.locked # EmptyLocked
  /\ \A c \in DOMAIN probe.locked : c[2] >= 0
  /\ probe.y < 0
  /\ probe.y + Len(probe.shape) > 1

\* ---------- C10 ----------
\* C10: a rotation turns the piece to the next state (clockwise) or the
\* previous one (counter-clockwise), modulo the number of states of its type;
\* it is applied in place if valid there, else with the first of the offsets
\* -1, +1, -2, +2 that makes it valid added to the column; the row is never
\* changed.
C10_RotationAndKicks ==
  [][ last'.op \in {"rotate", "rotate_ccw"} =>
        LET n == Len(TETROMINOES[current.type])
            r == IF last'.op = "rotate" THEN (current.rotation + 1) % n
                                        ELSE (current.rotation - 1) % n
            shape == TETROMINOES[current.type][r + 1]
            V(dx) == ValidPlacement(shape, current.x + dx, current.y, locked)
            turned(dx) == [current EXCEPT !.rotation = r, !.shape = shape,
                                          !.x = current.x + dx]
        IN  /\ current'.y = current.y
            /\ V(0) => current' = turned(0)
            /\ (~V(0) /\ V(0 - 1)) => current' = turned(0 - 1)
            /\ (~V(0) /\ ~V(0 - 1) /\ V(1)) => current' = turned(1)
            /\ (~V(0) /\ ~V(0 - 1) /\ ~V(1) /\ V(0 - 2)) => current' = turned(0 - 2)
            /\ (~V(0) /\ ~V(0 - 1) /\ ~V(1) /\ ~V(0 - 2) /\ V(2)) => current' = turned(2)
      ]_vars

\* A rotation was applied two columns to the left.
C10_Witness ==
  /\ last.op \in {"rotate", "rotate_ccw"}
  /\ last.ret
  /\ last.dx = 0 - 2


\* ---------- C11 ----------
\* The state a rotation command turns the piece to.
TurnedIndex(p, op) ==
  IF op = "rotate" THEN (p.rotation + 1) % Len(TETROMINOES[p.type])
                   ELSE (p.rotation - 1) % Len(TETROMINOES[p.type])

\* The new state is invalid at the anchor and at every kick.
NowhereValid(p, op, l) ==
  \A dx \in {0, 0 - 1, 1, 0 - 2, 2} :
     ~ValidPlacement(TETROMINOES[p.type][TurnedIndex(p, op) + 1], p.x + dx, p.y, l)

\* C11: a rotation reports failure exactly if the new state is invalid at
\* the offsets 0, -1, +1, -2 and +2; then the piece (index, shape, column,
\* row) and the rest of the game are as they were before the command.
C11_RotationFailure ==
  [][ last'.op \in {"rotate", "rotate_ccw"} =>
        /\ (last'.ret = FALSE) <=> NowhereValid(current, last'.op, locked)
        /\ NowhereValid(current, last'.op, locked) =>
              UNCHANGED <<current, locked, next_piece, fall_speed, score, lines,
                          level, game_over, pad_state>> ]_vars

\* A rotation has reported failure, of a piece with more than one state.
C11_Witness ==
  /\ last.op \in {"rotate", "rotate_ccw"}
  /\ last.ret = FALSE
  /\ Len(TETROMINOES[current.type]) > 1
  /\ NowhereValid(current, last.op, locked)


\* ---------- C12 ----------
\* The direction of a move command, as a step of the anchor.
StepOf(act) ==
  CASE act \in {"left", "pad_left"}   -> <<0 - 1, 0>>
    [] act \in {"right", "pad_right"} -> <<1, 0>>
    [] act \in {"down", "pad_down"}   -> <<0, 1>>

\* The piece after the move the claim describes: one cell further when the
\* placement there is valid, and as it is when not.
Moved(p, act, l) ==
  IF ValidPlacement(p.shape, p.x + StepOf(act)[1], p.y + StepOf(act)[2], l)
    THEN [p EXCEPT !.x = p.x + StepOf(act)[1], !.y = p.y + StepOf(act)[2]]
    ELSE p

\* The same for the held moves that a pad repeat performs, in the order of
\* the pad.
MovedAll(p, due, l) ==
  LET a == IF "left" \in due THEN Moved(p, "left", l) ELSE p
      b == IF "right" \in due THEN Moved(a, "right", l) ELSE a
  IN  IF "down" \in due THEN Moved(b, "down", l) ELSE b

MoveOps == {"left", "right", "down", "pad_left", "pad_right", "pad_down"}

\* C12: a move left, a move right or a soft drop, by key or by pad, whose
\* target placement is invalid changes nothing (the piece stays, the board,
\* the score, the lines, the level and game_over stay, and a blocked soft
\* drop does not lock); one whose target is valid changes one coordinate of
\* the anchor by exactly 1 and nothing else.
C12_MovesValidateFirst ==
  [][ /\ last'.op \in MoveOps =>
           /\ current' = Moved(current, last'.op, locked)
           /\ UNCHANGED <<locked, next_piece, fall_speed, score, lines, level,
                          game_over, nlocks>>
      /\ (last'.op = "repeat" /\ "rotate" \notin last'.piece) =>
           /\ current' = MovedAll(current, last'.piece, locked)
           /\ UNCHANGED <<locked, next_piece, fall_speed, score, lines, level,
                          game_over, nlocks>> ]_vars

\* A soft drop by pad was blocked: the piece rests on the stack, not locked.
C12_Witness ==
  /\ last.op = "pad_down"
  /\ last.ret = FALSE
  /\ current.y > 0 - Len(current.shape)
  /\ ~ValidPlacement(current.shape, current.x, current.y + 1, locked)
  /\ nlocks = 0


\* ---------- C13 ----------
\* A run of as many rotate commands as the piece has rotation states has
\* just been completed.
FullRun == probe.n > 0 /\ probe.n = Len(TETROMINOES[current.type])

\* C13, as stated: N consecutive rotate commands leave a piece with N
\* rotation states at its original rotation index and, when none of them was
\* kicked, at its original anchor.
C13_FullTurnRestores ==
  FullRun =>
    /\ current.rotation = probe.from.rotation
    /\ ~probe.kicked => (current.x = probe.from.x /\ current.y = probe.from.y)

\* C13, amended: the rotation index is the original one when none of the N
\* commands failed; the anchor is the original one when none of them was
\* kicked; a piece that is back at its index has its original shape.
C13_FullTurnOfSuccesses ==
  FullRun =>
    /\ ~probe.failed =>
          (current.rotation = probe.from.rotation /\ current.shape = probe.from.shape)
    /\ ~probe.kicked => (current.x = probe.from.x /\ current.y = probe.from.y)
    /\ (~probe.failed /\ ~probe.kicked) => current = probe.from

\* Four rotate commands of a piece with four states all succeeded, one of
\* them by a kick.
C13_Witness ==
  /\ FullRun
  /\ probe.n = 4
  /\ ~probe.failed
  /\ probe.kicked
  /\ current.rotation = probe.from.rotation


\* ---------- C14 ----------
\* C14: a hard drop moves the piece straight down, column and rotation as
\* they are, to the first row y whose next row y + 1 is an invalid
\* placement, and locks it there in the same step: the cells are written,
\* the full rows cleared, the score and the lines updated and the next
\* piece made current.
C14_HardDropLandsAndLocks ==
  [][ last'.op = "hard_drop" =>
        LET q == last'.piece
            w == Written(locked, q)
            n == Cardinality(FullRows(w))
        IN  /\ q = [current EXCEPT !.y = q.y]
            /\ q.y >= current.y
            /\ \A y \in current.y..q.y :
                  ValidPlacement(current.shape, current.x, y, locked)
            /\ ~ValidPlacement(current.shape, current.x, q.y + 1, locked)
            /\ locked' = Cleared(w)
            /\ score' = score + Reward(n) * level
            /\ lines' = lines + n
            /\ current' = next_piece
            /\ next_piece' = Piece(next_piece'.type)
            /\ nlocks' = nlocks + 1 ]_vars

\* An upright I piece, moved over the well in column 8, was dropped from
\* above the board to the bottom of the well, and the lock cleared rows.
C14_Witness ==
  /\ last.op = "hard_drop"
  /\ last.piece.rotation = 1
  /\ last.piece.x = 6
  /\ last.piece.y > 0
  /\ last.cleared > 0
  /\ ~game_over


\* ---------- C15 ----------
\* C15: every key of the locked board is a cell of the board, with
\* 0 <= row < ROWS and 0 <= column < COLUMNS; no lock, the one that ends the
\* game included, and no shift of clear_lines puts a cell outside.
C15_LockedCellsAreOnTheBoard ==
  \A c \in DOMAIN locked :
     /\ 0 <= c[2] /\ c[2] < ROWS
     /\ 0 <= c[1] /\ c[1] < COLUMNS

\* The lock that ended the game had cells above the top and cells on the
\* board, and cleared rows, so that rows were shifted; the bottom row and
\* the right wall hold cells.
C15_Witness ==
  /\ game_over
  /\ last.op \in LockOps
  /\ AboveTop(last.piece)
  /\ last.cleared > 0
  /\ \E c \in DOMAIN locked : c[2] = ROWS - 1
  /\ \E c \in DOMAIN locked : c[1] = COLUMNS - 1


\* ---------- C16 ----------
\* The spawn placement of a piece: rotation state 0 of its type, the shape
\* centred on the columns and its box wholly above the board.
AtSpawn(p) ==
  /\ p.type \in DOMAIN TETROMINOES
  /\ p.rotation = 0
  /\ p.shape = TETROMINOES[p.type][1]
  /\ p.x = (COLUMNS \div 2) - (Len(p.shape[1]) \div 2)
  /\ p.y = 0 - Len(p.shape)

\* C16: after reset the locked board is empty, the score and the lines are
\* 0, the level is 1, the fall interval is the base one of 600 ms,
\* game_over is false, and the current and the next piece are fresh pieces
\* at the spawn placement, rotation 0.
C16_ResetState ==
  last.op = "reset" =>
    /\ DOMAIN locked = {}
    /\ score = 0
    /\ lines = 0
    /\ level = 1
    /\ fall_speed = 600
    /\ game_over = FALSE
    /\ AtSpawn(current)
    /\ AtSpawn(next_piece)

\* The game was reset after a lock had ended it.
C16_Witness ==
  /\ last.op = "reset"
  /\ nlocks > 0
  /\ pc = "events"
  /\ current.type = "O"
  /\ next_piece.type = "I"

\* ---------- C17 ----------
\* Every cell of p is above the board and within the columns.
AboveAndWithin(p) ==
  \A c \in Cells(p) : c[2] < 0 /\ 0 <= c[1] /\ c[1] < COLUMNS

\* C17: the piece that becomes current, at reset or after a lock, is at the
\* spawn placement: rotation 0, anchor column COLUMNS \div 2 - width \div 2,
\* anchor row -height; all its cells are above the board and within the
\* columns, so the placement is valid whatever the board holds.  The same
\* is true of a fresh piece of every type.
C17_SpawnPlacement ==
  [][ /\ last'.op \in LockOps \cup {"reset"} =>
           /\ AtSpawn(current')
           /\ AboveAndWithin(current')
           /\ ValidPlacement(current'.shape, current'.x, current'.y, locked')
      /\ \A key \in DOMAIN TETROMINOES :
           /\ AtSpawn(Piece(key))
           /\ AboveAndWithin(Piece(key))
           /\ ValidPlacement(Piece(key).shape, Piece(key).x, Piece(key).y, locked') ]_vars

\* A piece became current over a board whose stack reaches row 0, by the
\* lock of a piece that rests there.
C17_Witness ==
  /\ last.op \in LockOps
  /\ ~game_over
  /\ AtSpawn(current)
  /\ \E c \in DOMAIN locked : c[2] = 0


\* ---------- C18 ----------
\* C18: in every reachable state the placement of the current piece is
\* valid against the locked board.
C18_CurrentPlacementIsValid ==
  ValidPlacement(current.shape, current.x, current.y, locked)

\* The piece is on the board, next to locked cells, where a rotation has
\* just put it by a wall kick.
C18_Witness ==
  /\ last.op \in {"rotate", "rotate_ccw"}
  /\ last.ret
  /\ last.dx # 0
  /\ current.y >= 0
  /\ locked # EmptyLocked


\* ---------- C19 ----------
\* What a step may do to the piece: while the game is on, no step but a
\* lock or a reset, which bring in another piece, lowers the anchor row; a
\* gravity tick moves the piece down by exactly one row when the placement
\* below is valid, and locks it where it is when not.
FallsOrLocks ==
  /\ (~game_over /\ last'.op \notin LockOps \cup {"reset"}) =>
        /\ current'.y >= current.y
        /\ current'.type = current.type
  /\ last'.op = "tick" =>
        /\ ValidPlacement(current.shape, current.x, current.y + 1, locked)
        /\ current' = [current EXCEPT !.y = current.y + 1]
        /\ UNCHANGED <<locked, nlocks>>
  /\ last'.op = "tick_lock" =>
        /\ ~ValidPlacement(current.shape, current.x, current.y + 1, locked)
        /\ last'.piece = current
        /\ locked' = Cleared(Written(locked, current))
        /\ current' = next_piece
        /\ nlocks' = nlocks + 1

\* C19: while the game is not over the anchor row of the current piece
\* never decreases and every gravity tick moves the piece down one row or
\* locks it; with a gravity timer that keeps coming due, the current piece
\* of a game that is on is eventually locked.
C19_PiecesFallAndLock ==
  /\ [][FallsOrLocks]_vars
  /\ \A k \in 0..(MaxLocks - 1) : (nlocks = k /\ ~game_over) ~> (nlocks > k)

\* A gravity tick locked a piece that had come down onto the board, and the
\* game goes on.
C19_Witness ==
  /\ last.op = "tick_lock"
  /\ last.piece.y > 0
  /\ nlocks > 0
  /\ ~game_over


\* ---------- C20 ----------
\* C20: in every state between two commands or ticks the locked board has no
\* full row: a lock writes the cells, clears the full rows, scores and
\* spawns in one step.
C20_NoFullRowIsLeft ==
  \A r \in 0..(ROWS - 1) : \E c \in 0..(COLUMNS - 1) : <<c, r>> \notin DOMAIN locked

\* A lock has just completed and cleared two rows or more, and rows that
\* were not full are left on the board.
C20_Witness ==
  /\ last.op \in LockOps
  /\ last.cleared >= 2
  /\ DOMAIN locked # {}
  /\ pc = "events"


\* ---------- C21 ----------
\* The occupied cells of a rotation state.
Occupied(shape) ==
  { ij \in (1..Len(shape)) \X (1..Len(shape[1])) : shape[ij[1]][ij[2]] = "1" }

\* C21: every rotation state of every piece has exactly 4 occupied cells
\* and the board has no full row before a lock, so a lock clears between 0
\* and 4 rows, the rows its cells complete; a lock that clears at least one
\* row raises the score by 40, 100, 300 or 1200 times the level before the
\* lock, never by the 0 of the default of the score table.
C21_LockClearsAtMostFour ==
  [][ last'.op \in LockOps =>
        LET n == Cardinality(FullRows(Written(locked, last'.piece)))
        IN  /\ \A key \in DOMAIN TETROMINOES : \A i \in 1..Len(TETROMINOES[key]) :
                  Cardinality(Occupied(TETROMINOES[key][i])) = 4
            /\ Cardinality(Cells(last'.piece)) = 4
            /\ FullRows(locked) = {}
            /\ last'.cleared = n
            /\ 0 <= n /\ n <= 4
            /\ n >= 1 =>
                 /\ score' - score \in {40 * level, 100 * level, 300 * level, 1200 * level}
                 /\ score' > score
            /\ n = 0 => score' = score ]_vars

\* An upright I piece was locked in a well four rows deep and the lock
\* cleared four rows, the most a lock can clear.
C21_Witness ==
  /\ last.op \in LockOps
  /\ last.piece.type = "I"
  /\ last.piece.rotation = 1
  /\ last.cleared = 4
  /\ score >= 1200
  /\ ~game_over

====
